---- MODULE Spec2Model ----
(***************************************************************************)
(* minidb: an in-memory key/value store served over HTTP in which every    *)
(* key carries a lock identified by a lock id (src/minidb/minidb.go).      *)
(*                                                                         *)
(* Every request is served by its own goroutine; a worker of the model is  *)
(* one such goroutine, serving one request after the other.  The shared    *)
(* state is the map `store`, the entries it points to (valueWr), the       *)
(* store-wide mutex storeMux and the per-entry mutex Mux.                  *)
(*                                                                         *)
(* Strings.  A request path is kept as the sequence of its '/'-separated   *)
(* segments, which is exactly what strings.Split(path, "/") returns and    *)
(* determines the path: a key that contains '/' is a sequence of more than *)
(* one segment.                                                            *)
(*                                                                         *)
(* Memory.  storeMux protects store and the Value fields.  The LockId      *)
(* field is written by valueWr.Lock after storeMux has been released, so   *)
(* that write races with the accesses of handlers that hold storeMux.  A   *)
(* Go string is a two-word header (data pointer, length); the model keeps  *)
(* the two words of LockId apart and stores them one word per step, in     *)
(* either order, so that a racing access sees what the machine can show.   *)
(***************************************************************************)
EXTENDS Integers, Sequences, FiniteSets, TLC

NumWorkers == 2
MaxGen == 2
MaxReq == 3

LockIdLength == 16

Workers == 1..NumWorkers
NoWorker == 0
NilRef == 0
NilPtr == "nil"

\* The lock ids genLockId can return: the i-th call with a working random
\* source returns TokStr[i]; ZeroTok is the hex of an all-zero buffer.
TokStr == <<"t1", "t2", "t3", "t4", "t5", "t6">>
ZeroTok == "0000"
FreshToks == {TokStr[i] : i \in 1..MaxGen}
AllToks == FreshToks \cup {ZeroTok}
\* Lock ids handed out before the behaviours of LiveSpec start: HeldTok to the
\* holder of key "b", PastTok to a holder of key "a" that released it since.
\* Under Spec, PastTok is a well-formed lock id a client made up.
HeldTok == "t0"
PastTok == "t9"

KeySegs == {"a", "b"}
PutBodies == {"x"}
PostBodies == {"y"}
Releases == {"true", "false", "maybe"}

\* len(s) of the strings of the model
StrLen(s) ==
    IF s = "" THEN 0
    ELSE IF s \in AllToks \cup {HeldTok, PastTok} THEN 2 * LockIdLength
    ELSE 1

\* The part of r.URL.Path after the endpoint prefix, as its segments.
ResvPaths == {<<"">>, <<"a">>, <<"b">>, <<"a", "b">>}
ValsKeyPaths == {<<"">>, <<"a">>, <<"b">>}
\* Authorized updates are sent for key "a" with a lock id, the empty one
\* (/values/a/) or one that is no lock id (/values/a/b); key "b" stands for a
\* key whose holder never comes back.
ValsLockPaths == {<<"a", t>> : t \in AllToks \cup {PastTok, "", "b"}}

Requests ==
    {[ep |-> "reservations", method |-> "POST", rest |-> p, release |-> "", body |-> ""] :
        p \in ResvPaths}
    \cup {[ep |-> "reservations", method |-> "GET", rest |-> <<"a">>, release |-> "", body |-> ""]}
    \cup {[ep |-> "values", method |-> "PUT", rest |-> p, release |-> "", body |-> b] :
        p \in ValsKeyPaths \cup {<<"a", "b">>}, b \in PutBodies}
    \cup {[ep |-> "values", method |-> "POST", rest |-> p, release |-> r, body |-> b] :
        p \in {<<"">>, <<"a">>} \cup ValsLockPaths, r \in Releases, b \in PostBodies}
    \cup {[ep |-> "values", method |-> "GET", rest |-> <<"a">>, release |-> "", body |-> ""]}

NoReq == [ep |-> "", method |-> "", rest |-> <<"">>, release |-> "", body |-> ""]
NoResp == [status |-> "", lock_id |-> "", value |-> ""]

\* Keys the store can be asked for
AllKeys == ResvPaths \cup {<<s>> : s \in KeySegs \cup {""}}

VARIABLES
    store,      \* map[string]*valueWr: key -> reference of its entry, NilRef when absent
    heap,       \* the allocated valueWr objects, by reference
    storeMux,   \* the worker holding storeMux, NoWorker when it is free
    pc,         \* position of every worker in its handler
    req,        \* the request a worker serves
    vw,         \* the handler's local vw
    tok,        \* the lock id genLockId returned to the worker
    pend,       \* the word of LockId the worker has still to store
    resp,       \* the response the worker sent
    nGen,       \* number of genLockId calls so far
    nReq,       \* number of requests accepted so far
    crashed,    \* the process died of a fatal runtime error
    holders,    \* history: per key, the acquisitions answered and not released
    released,   \* history: per key, the generated lock ids released so far
    issued,     \* history: the generated lock ids sent in a response so far
    created,    \* history: the worker's handler inserted the entry it works on
    firstAcq,   \* history: per key, who first locked the entry's Mux:
                \* "none" so far, the "creator" of the entry or an "other" worker
    written     \* history: per key, some PUT stored its body as the value

vars == <<store, heap, storeMux, pc, req, vw, tok, pend, resp, nGen, nReq, crashed,
          holders, released, issued, created, firstAcq, written>>

shared == <<store, heap, storeMux>>
locals == <<req, vw, tok, pend>>
hist == <<holders, released, issued, created, firstAcq, written>>

----------------------------------------------------------------------------
\* Pure helpers

\* strings.Split(r.URL.Path, "/") of a /values/ request
Parts(r) == <<"", "values">> \o r.rest

\* parts[2] of valuesHandler, r.URL.Path[len(PathReservations):] of reservationsHandler
KeyOf(r) == IF r.ep = "values" THEN <<Parts(r)[3]>> ELSE r.rest

\* parts[3] of valuesHandler (read only when len(parts) >= 4)
LockIdOf(r) == Parts(r)[4]

\* checkKey without its test for the empty key
checkKey_SlashOnly(key) == IF Len(key) > 1 THEN "KeyInvalid" ELSE "nil"

checkKey(key) ==
    IF key = <<"">> THEN "KeyMissing"
    ELSE IF Len(key) > 1 THEN "KeyInvalid"
    ELSE "nil"

\* The string a reader of the two words of LockId gets; "<fault>" when the
\* header has a length but no data (reading its bytes faults).
LockIdStr(e) ==
    IF e.LockLen = 0 THEN ""
    ELSE IF e.LockPtr = NilPtr THEN "<fault>"
    ELSE e.LockPtr

\* vw.LockId != parts[3]: lengths first, then the bytes
CompareLockId(e, s) ==
    IF e.LockLen # StrLen(s) THEN "ne"
    ELSE IF e.LockLen = 0 THEN "eq"
    ELSE IF e.LockPtr = NilPtr THEN "fault"
    ELSE IF e.LockPtr = s THEN "eq"
    ELSE "ne"

NewEntry == [Value |-> "", LockPtr |-> NilPtr, LockLen |-> 0, Mux |-> FALSE]

Reply(w, status) == [resp EXCEPT ![w] = [status |-> status, lock_id |-> "", value |-> ""]]

\* One word of the LockId header of entry ref stored: of the string s
StoreWord(ref, word, s) ==
    IF word = "len"
    THEN [heap EXCEPT ![ref].LockLen = StrLen(s)]
    ELSE [heap EXCEPT ![ref].LockPtr = IF s = "" THEN NilPtr ELSE s]

OtherWord(word) == IF word = "len" THEN "ptr" ELSE "len"

----------------------------------------------------------------------------
Init ==
    /\ store = [k \in AllKeys |-> NilRef]
    /\ heap = << >>
    /\ storeMux = NoWorker
    /\ pc = [w \in Workers |-> "idle"]
    /\ req = [w \in Workers |-> NoReq]
    /\ vw = [w \in Workers |-> NilRef]
    /\ tok = [w \in Workers |-> ""]
    /\ pend = [w \in Workers |-> ""]
    /\ resp = [w \in Workers |-> NoResp]
    /\ nGen = 0
    /\ nReq = 0
    /\ crashed = FALSE
    /\ holders = [k \in AllKeys |-> {}]
    /\ released = [k \in AllKeys |-> {}]
    /\ issued = {}
    /\ created = [w \in Workers |-> FALSE]
    /\ firstAcq = [k \in AllKeys |-> "none"]
    /\ written = [k \in AllKeys |-> FALSE]

\* The next request goes to the first worker that serves none (the goroutines
\* of the server are interchangeable), while requests are left within MaxReq
Free(w) ==
    /\ pc[w] = "idle"
    /\ \A v \in Workers : v < w => pc[v] # "idle"
    /\ nReq < MaxReq

\* A request whose handler returns before its storeMux.Lock(): the method
\* test of reservationsHandler, the key test of valuesHandler
EarlyError(r) ==
    IF r.ep = "reservations"
    THEN IF r.method # "POST" THEN "BadMethod" ELSE "nil"
    ELSE checkKey(KeyOf(r))

Reject(w) ==
    /\ ~crashed
    /\ Free(w)
    /\ nReq' = nReq + 1
    /\ \E r \in Requests :
        /\ EarlyError(r) # "nil"
        /\ req' = [req EXCEPT ![w] = r]
        /\ resp' = Reply(w, EarlyError(r))
    /\ pc' = [pc EXCEPT ![w] = "out"]
    /\ UNCHANGED <<shared, vw, tok, pend, nGen, crashed, hist>>

\* A request may call genLockId only while calls are left within MaxGen
GenLeft == nGen + Cardinality({v \in Workers : pc[v] \in {"lk_unlock", "lk_mux", "lk_gen"}}) < MaxGen

\* Reserve creating the entry of an unknown key, as the PUT branch does
Reserve_Creates(w) ==
    /\ ~crashed
    /\ Free(w)
    /\ nReq' = nReq + 1
    /\ storeMux = NoWorker
    /\ GenLeft
    /\ \E r \in Requests :
        /\ r.ep = "reservations"
        /\ EarlyError(r) = "nil"
        /\ req' = [req EXCEPT ![w] = r]
        /\ IF store[KeyOf(r)] = NilRef
           THEN /\ heap' = Append(heap, NewEntry)
                /\ store' = [store EXCEPT ![KeyOf(r)] = Len(heap) + 1]
                /\ vw' = [vw EXCEPT ![w] = Len(heap) + 1]
           ELSE /\ vw' = [vw EXCEPT ![w] = store[KeyOf(r)]]
                /\ UNCHANGED <<heap, store>>
    /\ pc' = [pc EXCEPT ![w] = "lk_unlock"]
    /\ storeMux' = w
    /\ UNCHANGED <<resp, tok, pend, nGen, crashed, hist>>

\* reservationsHandler from storeMux.Lock(): vw := store[key], NotFound when
\* nil, else on to vw.Lock()
Reserve(w) ==
    /\ ~crashed
    /\ Free(w)
    /\ nReq' = nReq + 1
    /\ storeMux = NoWorker
    /\ GenLeft
    /\ \E r \in Requests :
        /\ r.ep = "reservations"
        /\ EarlyError(r) = "nil"
        /\ req' = [req EXCEPT ![w] = r]
        /\ vw' = [vw EXCEPT ![w] = store[KeyOf(r)]]
        /\ IF store[KeyOf(r)] = NilRef
           THEN /\ resp' = Reply(w, "NotFound")
                /\ pc' = [pc EXCEPT ![w] = "ret"]
           ELSE /\ resp' = resp
                /\ pc' = [pc EXCEPT ![w] = "lk_unlock"]
    /\ storeMux' = w
    /\ UNCHANGED <<store, heap, tok, pend, nGen, crashed, hist>>

\* valuesHandler from storeMux.Lock(), default branch of the switch
ValuesOther(w) ==
    /\ ~crashed
    /\ Free(w)
    /\ nReq' = nReq + 1
    /\ storeMux = NoWorker
    /\ \E r \in Requests :
        /\ r.ep = "values"
        /\ EarlyError(r) = "nil"
        /\ r.method \notin {"POST", "PUT"}
        /\ req' = [req EXCEPT ![w] = r]
    /\ resp' = Reply(w, "BadMethod")
    /\ pc' = [pc EXCEPT ![w] = "ret"]
    /\ storeMux' = w
    /\ UNCHANGED <<store, heap, vw, tok, pend, nGen, crashed, hist>>

\* Lock ids are unguessable: a client presents a generated lock id only after
\* a response carried it
Presentable(s) == s \in AllToks => s \in issued

\* PostCheck looking the key up before it tests the lock id segment and the
\* release parameter
PostCheck_LookupFirst(r) ==
    IF store[KeyOf(r)] = NilRef THEN "NotFound"
    ELSE IF Len(Parts(r)) < 4 \/ (r.release # "false" /\ r.release # "true")
    THEN "Malformed"
    ELSE LET c == CompareLockId(heap[store[KeyOf(r)]], LockIdOf(r))
         IN  IF c = "ne" THEN "Unauthorized"
             ELSE IF c = "fault" THEN "Panic"
             ELSE "pass"

\* The outcome of the POST branch up to readBody: "Malformed", "NotFound",
\* "Unauthorized", "Panic" (the comparison faults) or "pass"
PostCheck(r) ==
    IF Len(Parts(r)) < 4 \/ (r.release # "false" /\ r.release # "true")
    THEN "Malformed"
    ELSE IF store[KeyOf(r)] = NilRef THEN "NotFound"
    ELSE LET c == CompareLockId(heap[store[KeyOf(r)]], LockIdOf(r))
         IN  IF c = "ne" THEN "Unauthorized"
             ELSE IF c = "fault" THEN "Panic"
             ELSE "pass"

\* valuesHandler from storeMux.Lock(), case POST: the checks, readBody, and
\* 204 unless release is "true", when vw.Unlock() comes first
ValuesPost(w) ==
    /\ ~crashed
    /\ Free(w)
    /\ nReq' = nReq + 1
    /\ storeMux = NoWorker
    /\ \E r \in Requests :
        /\ r.ep = "values"
        /\ EarlyError(r) = "nil"
        /\ r.method = "POST"
        /\ Len(r.rest) >= 2 => Presentable(r.rest[2])
        /\ req' = [req EXCEPT ![w] = r]
        /\ LET k == KeyOf(r)
               out == PostCheck(r)
           IN  IF out # "pass"
               THEN /\ resp' = Reply(w, out)
                    /\ pc' = [pc EXCEPT ![w] = "ret"]
                    /\ vw' = IF out = "Malformed" THEN vw ELSE [vw EXCEPT ![w] = store[k]]
                    /\ UNCHANGED <<heap, holders>>
               ELSE /\ vw' = [vw EXCEPT ![w] = store[k]]
                    /\ heap' = [heap EXCEPT ![store[k]].Value = r.body]
                    /\ IF r.release = "true"
                       THEN /\ pc' = [pc EXCEPT ![w] = "un_st1"]
                            /\ resp' = resp
                            /\ holders' = [holders EXCEPT ![k] =
                                              {h \in @ : h.tok # LockIdOf(r)}]
                       ELSE /\ pc' = [pc EXCEPT ![w] = "ret"]
                            /\ resp' = Reply(w, "NoContent")
                            /\ holders' = holders
    /\ storeMux' = w
    /\ UNCHANGED <<store, tok, pend, nGen, crashed,
                   released, issued, created, firstAcq, written>>

\* valueWr.Unlock: vw.LockId = "", first word
UnlockStore1(w) ==
    /\ ~crashed
    /\ pc[w] = "un_st1"
    /\ \E word \in {"len", "ptr"} :
        /\ heap' = StoreWord(vw[w], word, "")
        /\ pend' = [pend EXCEPT ![w] = OtherWord(word)]
    /\ pc' = [pc EXCEPT ![w] = "un_st2"]
    /\ UNCHANGED <<nReq, store, storeMux, req, vw, tok, resp, nGen, crashed, hist>>

\* valueWr.Unlock: vw.LockId = "", second word
UnlockStore2(w) ==
    /\ ~crashed
    /\ pc[w] = "un_st2"
    /\ heap' = StoreWord(vw[w], pend[w], "")
    /\ pend' = [pend EXCEPT ![w] = ""]
    /\ pc' = [pc EXCEPT ![w] = "un_mux"]
    /\ UNCHANGED <<nReq, store, storeMux, req, vw, tok, resp, nGen, crashed, hist>>

\* valueWr.Unlock: vw.Mux.Unlock(), which dies of "sync: unlock of unlocked
\* mutex" when the mutex is free and frees it whoever locked it otherwise;
\* then w.WriteHeader(http.StatusNoContent)
UnlockMux(w) ==
    /\ ~crashed
    /\ pc[w] = "un_mux"
    /\ IF heap[vw[w]].Mux
       THEN /\ heap' = [heap EXCEPT ![vw[w]].Mux = FALSE]
            /\ resp' = Reply(w, "NoContent")
            /\ pc' = [pc EXCEPT ![w] = "ret"]
            /\ released' = [released EXCEPT ![KeyOf(req[w])] =
                               @ \cup ({LockIdOf(req[w])} \cap (AllToks \cup {PastTok}))]
            /\ crashed' = crashed
       ELSE /\ crashed' = TRUE
            /\ UNCHANGED <<heap, resp, pc, released>>
    /\ UNCHANGED <<store, storeMux, locals, nGen, nReq,
                   holders, issued, created, firstAcq, written>>

\* ValuesPut without the test vw == nil: a new entry is stored for the key
\* whether or not it has one
ValuesPut_AlwaysCreates(w) ==
    /\ ~crashed
    /\ Free(w)
    /\ nReq' = nReq + 1
    /\ storeMux = NoWorker
    /\ GenLeft
    /\ \E r \in Requests :
        /\ r.ep = "values"
        /\ EarlyError(r) = "nil"
        /\ r.method = "PUT"
        /\ req' = [req EXCEPT ![w] = r]
        /\ heap' = Append(heap, NewEntry)
        /\ store' = [store EXCEPT ![KeyOf(r)] = Len(heap) + 1]
        /\ vw' = [vw EXCEPT ![w] = Len(heap) + 1]
        /\ created' = [created EXCEPT ![w] = TRUE]
    /\ storeMux' = w
    /\ pc' = [pc EXCEPT ![w] = "lk_unlock"]
    /\ UNCHANGED <<tok, pend, resp, nGen, crashed,
                   holders, released, issued, firstAcq, written>>

\* valuesHandler from storeMux.Lock(), case PUT: vw := store[key], created
\* when nil, then on to vw.Lock()
ValuesPut(w) ==
    /\ ~crashed
    /\ Free(w)
    /\ nReq' = nReq + 1
    /\ storeMux = NoWorker
    /\ GenLeft
    /\ \E r \in Requests :
        /\ r.ep = "values"
        /\ EarlyError(r) = "nil"
        /\ r.method = "PUT"
        /\ req' = [req EXCEPT ![w] = r]
        /\ LET k == KeyOf(r)
           IN  IF store[k] = NilRef
               THEN /\ heap' = Append(heap, NewEntry)
                    /\ store' = [store EXCEPT ![k] = Len(heap) + 1]
                    /\ vw' = [vw EXCEPT ![w] = Len(heap) + 1]
                    /\ created' = [created EXCEPT ![w] = TRUE]
               ELSE /\ vw' = [vw EXCEPT ![w] = store[k]]
                    /\ UNCHANGED <<heap, store, created>>
    /\ storeMux' = w
    /\ pc' = [pc EXCEPT ![w] = "lk_unlock"]
    /\ UNCHANGED <<tok, pend, resp, nGen, crashed,
                   holders, released, issued, firstAcq, written>>

\* LockRelease without its storeMux.Unlock(): the guard is kept during the wait
LockRelease_KeepGuard(w) ==
    /\ ~crashed
    /\ pc[w] = "lk_unlock"
    /\ pc' = [pc EXCEPT ![w] = "lk_mux"]
    /\ UNCHANGED <<nReq, store, heap, storeMux, locals, resp, nGen, crashed, hist>>

\* valueWr.Lock: storeMux.Unlock()
LockRelease(w) ==
    /\ ~crashed
    /\ pc[w] = "lk_unlock"
    /\ IF storeMux = NoWorker
       THEN crashed' = TRUE /\ UNCHANGED <<storeMux, pc>>
       ELSE /\ storeMux' = NoWorker
            /\ pc' = [pc EXCEPT ![w] = "lk_mux"]
            /\ crashed' = crashed
    /\ UNCHANGED <<nReq, store, heap, locals, resp, nGen, hist>>

\* valueWr.Lock: vw.Mux.Lock(), which waits until the mutex is free
LockMux(w) ==
    /\ ~crashed
    /\ pc[w] = "lk_mux"
    /\ ~heap[vw[w]].Mux
    /\ heap' = [heap EXCEPT ![vw[w]].Mux = TRUE]
    /\ pc' = [pc EXCEPT ![w] = "lk_gen"]
    /\ firstAcq' = [firstAcq EXCEPT ![KeyOf(req[w])] =
                       IF @ # "none" THEN @ ELSE IF created[w] THEN "creator" ELSE "other"]
    /\ UNCHANGED <<nReq, store, storeMux, locals, resp, nGen, crashed,
                   holders, released, issued, created, written>>

\* genLockId: the hex of LockIdLength random bytes, of the zeroed buffer when
\* rand.Read fails (the error is only logged)
genLockId(ok) == IF ok THEN TokStr[nGen + 1] ELSE ZeroTok

\* valueWr.Lock: vw.LockId = genLockId(), first word
LockStore1(w) ==
    /\ ~crashed
    /\ pc[w] = "lk_gen"
    /\ \E ok \in BOOLEAN, word \in {"len", "ptr"} :
        /\ tok' = [tok EXCEPT ![w] = genLockId(ok)]
        /\ heap' = StoreWord(vw[w], word, genLockId(ok))
        /\ pend' = [pend EXCEPT ![w] = OtherWord(word)]
    /\ nGen' = nGen + 1
    /\ pc' = [pc EXCEPT ![w] = "lk_st2"]
    /\ UNCHANGED <<nReq, store, storeMux, req, vw, resp, crashed, hist>>

\* valueWr.Lock: vw.LockId = genLockId(), second word
LockStore2(w) ==
    /\ ~crashed
    /\ pc[w] = "lk_st2"
    /\ heap' = StoreWord(vw[w], pend[w], tok[w])
    /\ pend' = [pend EXCEPT ![w] = ""]
    /\ pc' = [pc EXCEPT ![w] = "lk_relock"]
    /\ UNCHANGED <<nReq, store, storeMux, req, vw, tok, resp, nGen, crashed, hist>>

\* valueWr.Lock returns through its deferred storeMux.Lock(); then readBody
\* of the PUT branch and SendJSONResp, which panics when the bytes of LockId
\* cannot be read
LockReturn(w) ==
    /\ ~crashed
    /\ pc[w] = "lk_relock"
    /\ storeMux = NoWorker
    /\ storeMux' = w
    /\ LET r == req[w]
           k == KeyOf(r)
           put == r.ep = "values"
           h == IF put THEN [heap EXCEPT ![vw[w]].Value = r.body] ELSE heap
           id == LockIdStr(h[vw[w]])
       IN  /\ heap' = h
           /\ written' = IF put THEN [written EXCEPT ![k] = TRUE] ELSE written
           /\ IF id = "<fault>"
              THEN /\ resp' = Reply(w, "Panic")
                   /\ UNCHANGED <<holders, issued>>
              ELSE /\ resp' = [resp EXCEPT ![w] =
                                 [status |-> "OK", lock_id |-> id,
                                  value |-> IF put THEN "" ELSE h[vw[w]].Value]]
                   /\ holders' = [holders EXCEPT ![k] = @ \cup {[by |-> w, tok |-> id]}]
                   /\ issued' = issued \cup ({id} \cap AllToks)
    /\ pc' = [pc EXCEPT ![w] = "ret"]
    /\ UNCHANGED <<nReq, store, locals, nGen, crashed, released, created, firstAcq>>

\* Return without the deferred storeMux.Unlock() after a panic
Return_NoDeferOnPanic(w) ==
    /\ ~crashed
    /\ pc[w] \in {"ret", "out"}
    /\ storeMux' = IF pc[w] = "ret" /\ resp[w].status # "Panic" THEN NoWorker ELSE storeMux
    /\ pc' = [pc EXCEPT ![w] = "idle"]
    /\ req' = [req EXCEPT ![w] = NoReq]
    /\ resp' = [resp EXCEPT ![w] = NoResp]
    /\ vw' = [vw EXCEPT ![w] = NilRef]
    /\ tok' = [tok EXCEPT ![w] = ""]
    /\ created' = [created EXCEPT ![w] = FALSE]
    /\ UNCHANGED <<nReq, store, heap, pend, nGen, crashed,
                   holders, released, issued, firstAcq, written>>

\* The handler returns: the deferred storeMux.Unlock() when it got as far as
\* storeMux.Lock(); the goroutine and its locals are gone
Return(w) ==
    /\ ~crashed
    /\ pc[w] \in {"ret", "out"}
    /\ storeMux' = IF pc[w] = "ret" THEN NoWorker ELSE storeMux
    /\ pc' = [pc EXCEPT ![w] = "idle"]
    /\ req' = [req EXCEPT ![w] = NoReq]
    /\ resp' = [resp EXCEPT ![w] = NoResp]
    /\ vw' = [vw EXCEPT ![w] = NilRef]
    /\ tok' = [tok EXCEPT ![w] = ""]
    /\ created' = [created EXCEPT ![w] = FALSE]
    /\ UNCHANGED <<nReq, store, heap, pend, nGen, crashed,
                   holders, released, issued, firstAcq, written>>

Next ==
    \E w \in Workers :
        \/ Reject(w)
        \/ Reserve(w)
        \/ ValuesOther(w)
        \/ ValuesPost(w)
        \/ UnlockStore1(w)
        \/ UnlockStore2(w)
        \/ UnlockMux(w)
        \/ ValuesPut(w)
        \/ LockRelease(w)
        \/ LockMux(w)
        \/ LockStore1(w)
        \/ LockStore2(w)
        \/ LockReturn(w)
        \/ Return(w)

Spec == Init /\ [][Next]_vars

\* The state after PUT /values/b, whose client keeps the lock and never comes
\* back, and after PUT /values/a and an authorized update that released it
\* with body "y": b is locked with HeldTok, a is unlocked and its lock id
\* PastTok is released.
LiveInit ==
    /\ store = [k \in AllKeys |-> IF k = <<"b">> THEN 1 ELSE IF k = <<"a">> THEN 2 ELSE NilRef]
    /\ heap = <<[Value |-> "x", LockPtr |-> HeldTok, LockLen |-> 2 * LockIdLength, Mux |-> TRUE],
                [Value |-> "y", LockPtr |-> NilPtr, LockLen |-> 0, Mux |-> FALSE]>>
    /\ storeMux = NoWorker
    /\ pc = [w \in Workers |-> "idle"]
    /\ req = [w \in Workers |-> NoReq]
    /\ vw = [w \in Workers |-> NilRef]
    /\ tok = [w \in Workers |-> ""]
    /\ pend = [w \in Workers |-> ""]
    /\ resp = [w \in Workers |-> NoResp]
    /\ nGen = 0
    /\ nReq = 0
    /\ crashed = FALSE
    /\ holders = [k \in AllKeys |-> IF k = <<"b">> THEN {[by |-> NoWorker, tok |-> HeldTok]} ELSE {}]
    /\ released = [k \in AllKeys |-> IF k = <<"a">> THEN {PastTok} ELSE {}]
    /\ issued = {}
    /\ created = [w \in Workers |-> FALSE]
    /\ firstAcq = [k \in AllKeys |-> IF k \in {<<"a">>, <<"b">>} THEN "creator" ELSE "none"]
    /\ written = [k \in AllKeys |-> k \in {<<"a">>, <<"b">>}]

\* Scheduling: a goroutine that can run does run; sync.Mutex and sync.RWMutex
\* hand the lock to a waiter that keeps waiting (starvation mode), so a
\* waiter whose lock is free again and again gets it.  Nothing obliges
\* clients to send requests.
Fairness ==
    \A w \in Workers :
        /\ WF_vars(UnlockStore1(w) \/ UnlockStore2(w) \/ UnlockMux(w) \/ LockRelease(w)
                     \/ LockStore1(w) \/ LockStore2(w) \/ Return(w))
        /\ SF_vars(LockMux(w))
        /\ SF_vars(LockReturn(w))

LiveSpec == LiveInit /\ [][Next]_vars /\ Fairness

\* The state after a PUT /values/a with body "x" whose client holds the lock
\* with the first lock id generated and is still there.
HeldInit ==
    /\ store = [k \in AllKeys |-> IF k = <<"a">> THEN 1 ELSE NilRef]
    /\ heap = <<[Value |-> "x", LockPtr |-> TokStr[1], LockLen |-> 2 * LockIdLength, Mux |-> TRUE]>>
    /\ storeMux = NoWorker
    /\ pc = [w \in Workers |-> "idle"]
    /\ req = [w \in Workers |-> NoReq]
    /\ vw = [w \in Workers |-> NilRef]
    /\ tok = [w \in Workers |-> ""]
    /\ pend = [w \in Workers |-> ""]
    /\ resp = [w \in Workers |-> NoResp]
    /\ nGen = 1
    /\ nReq = 0
    /\ crashed = FALSE
    /\ holders = [k \in AllKeys |-> IF k = <<"a">> THEN {[by |-> NoWorker, tok |-> TokStr[1]]} ELSE {}]
    /\ released = [k \in AllKeys |-> {}]
    /\ issued = {TokStr[1]}
    /\ created = [w \in Workers |-> FALSE]
    /\ firstAcq = [k \in AllKeys |-> IF k = <<"a">> THEN "creator" ELSE "none"]
    /\ written = [k \in AllKeys |-> k = <<"a">>]

HeldSpec == HeldInit /\ [][Next]_vars /\ Fairness

----------------------------------------------------------------------------
TypeOK ==
    /\ storeMux \in Workers \cup {NoWorker}
    /\ \A k \in AllKeys : store[k] \in 0..Len(heap)
    /\ nGen \in 0..MaxGen

\* The worker is inside valueWr.Lock, past its storeMux.Unlock()
InLock(w) == pc[w] \in {"lk_mux", "lk_gen", "lk_st2", "lk_relock"}

\* The worker waits in vw.Mux.Lock() for a mutex that is held
Blocked(w) == pc[w] = "lk_mux" /\ heap[vw[w]].Mux

----------------------------------------------------------------------------
\* The worker takes up an authorized update (POST /values/{key}/{lock_id})
\* that is well formed, for a key that has an entry
PostStep(w) ==
    /\ pc[w] = "idle" /\ pc'[w] # "idle"
    /\ req'[w].ep = "values" /\ req'[w].method = "POST"
    /\ EarlyError(req'[w]) = "nil"
    /\ Len(Parts(req'[w])) >= 4
    /\ req'[w].release \in {"true", "false"}
    /\ store[KeyOf(req'[w])] # NilRef

\* The entry of the request the worker takes up, before the step
EntryOf(w) == heap[store[KeyOf(req'[w])]]

\* C1. Mutual exclusion: for every key, at most one acquisition that was
\* answered with a lock id is outstanding, i.e. not yet released by an
\* authorized update that presented its lock id with release=true.
C1_MutualExclusion == \A k \in AllKeys : Cardinality(holders[k]) <= 1

\* C2. Non-overlap of the guards: a worker inside valueWr.Lock, from the wait
\* for the entry's Mux until the deferred storeMux.Lock(), does not hold
\* storeMux; in particular no worker blocked on an entry's Mux holds it.
C2_GuardReleasedInWait == \A w \in Workers : InLock(w) => storeMux # w

\* C2 witness: a worker is blocked on a held entry mutex while another worker
\* holds storeMux.
C2_Witness ==
    \E w \in Workers : Blocked(w) /\ storeMux \notin {w, NoWorker}

\* C3. Independence: while workers are suspended on key "b", whose holder
\* never releases, every request on key "a" that a handler has taken up runs
\* to its return, unless it waits for the held lock of "a" itself.
C3_Independence ==
    \A w \in Workers :
        ((\E v \in Workers : Blocked(v) /\ KeyOf(req[v]) = <<"b">>)
            /\ pc[w] # "idle" /\ KeyOf(req[w]) = <<"a">>)
        ~> (pc[w] = "idle" \/ Blocked(w))

\* The same with the death of the process set aside
C3_IndependenceUnlessCrashed ==
    \A w \in Workers :
        ((\E v \in Workers : Blocked(v) /\ KeyOf(req[v]) = <<"b">>)
            /\ pc[w] # "idle" /\ KeyOf(req[w]) = <<"a">>)
        ~> (pc[w] = "idle" \/ Blocked(w) \/ crashed)

\* C4. An authorized update on an entry in the UNLOCKED state (LockId empty,
\* Mux free) is answered Unauthorized whatever lock id it presents, and
\* leaves the entries as they are.
C4_UnlockedRejects ==
    [][\A w \in Workers :
        (PostStep(w) /\ LockIdStr(EntryOf(w)) = "" /\ ~EntryOf(w).Mux)
        => (resp'[w].status = "Unauthorized" /\ heap' = heap)]_vars

\* C5. Token freshness: an authorized update that presents a lock id which
\* genLockId generated from fresh random bytes and which has been released is
\* answered Unauthorized.
C5_StaleTokenRejected ==
    [][\A w \in Workers :
        (PostStep(w) /\ LockIdOf(req'[w]) \in released[KeyOf(req'[w])]
            /\ LockIdOf(req'[w]) # ZeroTok)
        => resp'[w].status = "Unauthorized"]_vars

\* C5, the part the code keeps: such an update never passes the lock id test.
C5_StaleTokenNeverPasses ==
    [][\A w \in Workers :
        (PostStep(w) /\ LockIdOf(req'[w]) \in released[KeyOf(req'[w])]
            /\ LockIdOf(req'[w]) # ZeroTok)
        => resp'[w].status \in {"Unauthorized", "Panic"}]_vars

\* C6. The worker that inserts an entry is the first to lock its Mux.
C6_CreatorAcquiresFirst == \A k \in AllKeys : firstAcq[k] # "other"

\* C7. A reservation answers with a lock id and a value only for a key some
\* PUT has stored its body for.
C7_ReservationAfterWrite ==
    \A w \in Workers :
        (req[w].ep = "reservations" /\ resp[w].status = "OK") => written[KeyOf(req[w])]

\* C8. A reservation for a key that has no entry is answered NotFound at
\* once: it never enters valueWr.Lock and changes neither the store nor any
\* entry.
C8_ReserveUnknownKey ==
    [][\A w \in Workers :
        (pc[w] = "idle" /\ pc'[w] # "idle" /\ req'[w].ep = "reservations"
            /\ EarlyError(req'[w]) = "nil" /\ store[KeyOf(req'[w])] = NilRef)
        => (resp'[w].status = "NotFound" /\ pc'[w] = "ret"
            /\ store' = store /\ heap' = heap)]_vars

\* C8 witness: NotFound was answered for a reservation while another key has
\* an entry.
C8_Witness ==
    \E w \in Workers :
        /\ pc[w] = "ret" /\ req[w].ep = "reservations" /\ resp[w].status = "NotFound"
        /\ store[KeyOf(req[w])] = NilRef
        /\ \E k \in AllKeys : store[k] # NilRef

\* C9. An authorized update on a key whose Mux is held that presents a lock
\* id other than the entry's LockId is answered Unauthorized and leaves the
\* entries as they are.
C9_WrongTokenRejected ==
    [][\A w \in Workers :
        (PostStep(w) /\ EntryOf(w).Mux /\ LockIdStr(EntryOf(w)) # LockIdOf(req'[w]))
        => (resp'[w].status = "Unauthorized" /\ heap' = heap)]_vars

\* C9, the part the code keeps: such an update changes no entry.
C9_WrongTokenChangesNothing ==
    [][\A w \in Workers :
        (PostStep(w) /\ EntryOf(w).Mux /\ LockIdStr(EntryOf(w)) # LockIdOf(req'[w]))
        => (resp'[w].status \in {"Unauthorized", "Panic"} /\ heap' = heap)]_vars

\* C10. An authorized update without a lock id segment, or with a release
\* parameter other than "true" and "false", is answered as malformed whether
\* or not the key has an entry and whatever its lock id, and changes neither
\* the store nor any entry.
C10_MalformedFirst ==
    [][\A w \in Workers :
        (pc[w] = "idle" /\ pc'[w] # "idle"
            /\ req'[w].ep = "values" /\ req'[w].method = "POST"
            /\ EarlyError(req'[w]) = "nil"
            /\ (Len(Parts(req'[w])) < 4 \/ req'[w].release \notin {"true", "false"}))
        => (resp'[w].status = "Malformed" /\ pc'[w] = "ret"
            /\ store' = store /\ heap' = heap /\ holders' = holders)]_vars

\* C10 witness: release=maybe was answered as malformed although the key has
\* an entry whose LockId is not the lock id presented.
C10_Witness ==
    \E w \in Workers :
        /\ pc[w] = "ret" /\ resp[w].status = "Malformed" /\ req[w].release = "maybe"
        /\ Len(Parts(req[w])) >= 4
        /\ store[KeyOf(req[w])] # NilRef
        /\ LockIdStr(heap[store[KeyOf(req[w])]]) # LockIdOf(req[w])

\* C11. When the random source fails inside genLockId, the acquisition is not
\* answered as a success: no response with status OK carries the lock id of
\* the all-zero buffer, and that lock id is never stored in an entry.
C11_NoDegradedToken ==
    /\ \A w \in Workers : resp[w].status = "OK" => resp[w].lock_id # ZeroTok
    /\ \A i \in 1..Len(heap) : heap[i].LockPtr # ZeroTok

\* C12. Every request whose key (the key its handler looks up) is empty is
\* answered KeyMissing and every request whose key contains '/' is answered
\* KeyInvalid, before the handler takes storeMux, and neither the store nor
\* any entry changes.
C12_KeyCheckedFirst ==
    [][\A w \in Workers :
        (pc[w] = "idle" /\ pc'[w] # "idle" /\ req'[w].method \in {"POST", "PUT"}
            /\ checkKey(KeyOf(req'[w])) # "nil")
        => (resp'[w].status = checkKey(KeyOf(req'[w])) /\ storeMux' = storeMux
            /\ store' = store /\ heap' = heap)]_vars

\* C13. Entry invariant as a handler sees it: a worker that takes storeMux
\* for an authorized update finds the entry's LockId non-empty if and only
\* if the entry's Mux is held.
C13_EntryInvariantObserved ==
    [][\A w \in Workers :
        PostStep(w) => ((LockIdStr(EntryOf(w)) # "") <=> EntryOf(w).Mux)]_vars

\* The authorized update the worker takes up presents a non-empty lock id
\* that equals the LockId of the entry
MatchStep(w) ==
    /\ PostStep(w)
    /\ LockIdOf(req'[w]) # ""
    /\ CompareLockId(EntryOf(w), LockIdOf(req'[w])) = "eq"

\* C14. With a matching lock id an authorized update stores its body as the
\* value; with release=false it answers 204 and leaves LockId and Mux as they
\* are; with release=true its valueWr.Unlock ends with LockId empty and the
\* Mux free, and it answers 204.
C14_ReleaseIffTrue ==
    [][\A w \in Workers :
        /\ MatchStep(w) =>
              heap'[store[KeyOf(req'[w])]].Value = req'[w].body
        /\ (MatchStep(w) /\ req'[w].release = "false") =>
              /\ resp'[w].status = "NoContent"
              /\ heap' = [heap EXCEPT ![store[KeyOf(req'[w])]].Value = req'[w].body]
        /\ (pc[w] = "un_mux" /\ LockIdOf(req[w]) # ""
                /\ (pc'[w] # "un_mux" \/ crashed')) =>
              /\ ~crashed'
              /\ resp'[w].status = "NoContent"
              /\ ~heap'[vw[w]].Mux
              /\ LockIdStr(heap'[vw[w]]) = ""]_vars

\* C15. A worker whose handler has returned, or has not reached its
\* storeMux.Lock(), does not hold storeMux; and a worker about to call
\* storeMux.Unlock(), in valueWr.Lock or in the handler's deferred call,
\* holds it.
C15_GuardReleasedOnExit ==
    \A w \in Workers :
        /\ pc[w] \in {"idle", "out"} => storeMux # w
        /\ pc[w] \in {"lk_unlock", "ret"} => storeMux = w

\* C15 witness: the handler of a worker has returned after an acquisition
\* that went through valueWr.Lock, another worker waits for that entry's Mux,
\* and storeMux is free.
C15_Witness ==
    /\ storeMux = NoWorker
    /\ \E v, w \in Workers :
        /\ pc[v] = "idle"
        /\ \E k \in AllKeys : \E h \in holders[k] : h.by = v
        /\ Blocked(w)

\* The worker's authorized update presented a non-empty lock id with
\* release=true and its valueWr.Unlock has freed the Mux of the entry
Released(u) ==
    /\ pc[u] = "ret"
    /\ req[u].ep = "values" /\ req[u].method = "POST" /\ req[u].release = "true"
    /\ resp[u].status = "NoContent"
    /\ LockIdOf(req[u]) # ""

\* The worker's acquisition of key k has been answered with a lock id
Acquired(w, k) ==
    /\ pc[w] = "ret"
    /\ req[w].method \in {"POST", "PUT"} /\ KeyOf(req[w]) = k
    /\ resp[w].status = "OK" /\ resp[w].lock_id # ""

\* C16. When the holder of a key releases it while workers are suspended in
\* vw.Mux.Lock() for that key, one of the suspended workers eventually
\* completes its acquisition and is answered with a lock id.
C16_WaiterProceeds ==
    \A k \in AllKeys :
        (\E u, w \in Workers :
            Released(u) /\ KeyOf(req[u]) = k /\ pc[w] = "lk_mux" /\ KeyOf(req[w]) = k)
        ~> (\E w \in Workers : Acquired(w, k))

\* C17. The LockId of an entry is written only by a worker that holds
\* storeMux: an acquirer stores its new lock id after it has re-acquired
\* storeMux.
C17_LockIdWrittenUnderGuard ==
    [][\A w \in Workers :
        (pc'[w] # pc[w]
            /\ \E i \in 1..Len(heap) :
                   <<heap'[i].LockLen, heap'[i].LockPtr>> # <<heap[i].LockLen, heap[i].LockPtr>>)
        => storeMux = w]_vars

\* C18. A key that has an entry keeps that very entry; every entry allocated
\* is the entry of exactly one key, so a worker that loses the race to
\* create a key allocates no second entry for it.
C18_EntriesStable ==
    [][/\ \A k \in AllKeys : store[k] # NilRef => store'[k] = store[k]
       /\ Len(heap') >= Len(heap)
       /\ \A i \in 1..Len(heap') : Cardinality({k \in AllKeys : store'[k] = i}) = 1]_vars

\* C18 witness: two PUT requests for the same key are in their handlers, one
\* of them inserted the entry and both work on it.
C18_Witness ==
    \E v, w \in Workers :
        /\ v # w
        /\ req[v].method = "PUT" /\ req[w].method = "PUT"
        /\ KeyOf(req[v]) = KeyOf(req[w])
        /\ created[v] /\ ~created[w]
        /\ vw[v] # NilRef /\ vw[w] = vw[v]
        /\ store[KeyOf(req[v])] = vw[v]

\* C19. Every key that has an entry is one path segment and is not empty.
C19_StoreKeysValid ==
    \A k \in AllKeys : store[k] # NilRef => (Len(k) = 1 /\ k # <<"">>)

\* C19 witness: PUT /values/a/b, a path with an extra segment, was served
\* and inserted its entry, for key "a"; a request without a key was rejected.
C19_Witness ==
    \E v, w \in Workers :
        /\ req[v].method = "PUT" /\ req[v].rest = <<"a", "b">> /\ created[v]
        /\ store[<<"a">>] = vw[v] /\ vw[v] # NilRef
        /\ req[w].ep = "values" /\ req[w].rest = <<"">> /\ resp[w].status = "KeyMissing"

\* C20. valueWr.Unlock never calls Mux.Unlock() on a free mutex: the process
\* does not die in the release step of an authorized update.
C20_NoUnlockOfUnlocked ==
    \A w \in Workers : ~(crashed /\ pc[w] = "un_mux")

====
